---------------------------- MODULE Spec2Model ----------------------------
(***************************************************************************)
(* A model of two subsystems of the bubbletea runtime:                     *)
(*                                                                         *)
(*   - the cancelable input readers of inputreader_linux.go (epoll) and    *)
(*     inputreader_select.go (select): ReadInput, Cancel, Close, wait and  *)
(*     waitForRead, with the reader thread, the cancelling threads and     *)
(*     the arrival of input interleaved step by step;                      *)
(*   - the runtime loop of boba.go: Program.Start with its goroutines      *)
(*     (initial command sender, input pump, command dispatcher, one        *)
(*     goroutine per command) and its unbuffered channels.                 *)
(*                                                                         *)
(* The two subsystems do not call each other in the source (the loop reads *)
(* keys with ReadKey), so each has a specification of its own over the     *)
(* shared variable list: ReaderSpec and LoopSpec.  SelectSpec adds the     *)
(* construction of the select reader; RenderSpec, LoopFairSpec and         *)
(* StartFairSpec are the loop for particular applications and schedulers.  *)
(***************************************************************************)
EXTENDS Integers, Sequences, FiniteSets, TLC

\* ------------------------------------------------------------------ bounds

\* Input events that arrive on the target stream during one reader's life.
MaxInput == 1
\* ReadInput calls made by the reader thread.
MaxReads == 2
\* Threads that each call Cancel once.
NumCancellers == 2
\* Close calls made by the owner.
MaxClose == 2
\* Commands the application creates (each batch member counts).
MaxCmds == 3
\* ReadKey calls that return.
MaxKeys == 1

VARIABLES
    \* ---- cancelable reader (inputreader_linux.go, inputreader_select.go)
    strategy,      \* "epoll" | "select": which reader was constructed
    cancelled,     \* cancelMixin's flag
    cancelSignal,  \* bytes written to cancelSignalWriter, not yet read
    file,          \* input events pending on r.file, oldest first
    closed,        \* the resources Close has released
    rpc,           \* the reader thread's position inside ReadInput
    cur,           \* bookkeeping of the ReadInput call in flight
    rets,          \* what each finished ReadInput call returned, in order
    cpc,           \* each cancelling thread's position inside Cancel
    crets,         \* what each Cancel call returned
    wakes,         \* wake bytes written by Cancel calls so far
    closeRets,     \* what each Close call returned (its errMsgs), in order
    closeFails,    \* the release steps that failed in each Close call
    arrived,       \* input events that have arrived so far
    intr,          \* the wait in flight has returned EINTR and was retried
    quietCancel    \* a Cancel call completed while no ReadInput was in flight

rvars == <<strategy, cancelled, cancelSignal, file, closed, rpc, cur, rets,
           cpc, crets, wakes, closeRets, closeFails, arrived, intr, quietCancel>>

VARIABLES
    \* ---- runtime loop (boba.go, Program.Start)
    p,             \* the Program: the application's init, update and view
    mpc,           \* the main goroutine's position inside Start
    startRet,      \* what Start returned: "none" while it runs
    rawHeld,       \* the terminal is in raw mode
    rawEnters,     \* initTerminal calls
    restores,      \* restoreTerminal calls
    model,         \* the local `model`
    cmd,           \* the local `cmd`
    todo,          \* the batched commands the range loop has yet to send
    linesRendered, \* the local `linesRendered`
    renders,       \* render calls so far
    lastPaint,     \* what the latest render call cleared and wrote
    done,          \* the channel `done` is closed
    initSend,      \* the initial-command goroutine: <<cmd>> while it is sending
    ppc,           \* the input pump's position
    keysRead,      \* ReadKey calls that have returned
    dpc,           \* the command dispatcher's position
    running,       \* commands invoked by their goroutine, not yet returned
    sending,       \* command results whose goroutine is blocked on `msgs <-`
    nextId,        \* the next fresh command identity
    updLog,        \* the messages passed to update, in order
    dispLog,       \* the commands the dispatcher received, in order
    ghost          \* observations the properties are stated over

lvars == <<p, mpc, startRet, rawHeld, rawEnters, restores, model, cmd, todo,
           linesRendered, renders, lastPaint, done, initSend, ppc, keysRead, dpc, running,
           sending, nextId, updLog, dispLog, ghost>>

VARIABLES
    \* ---- construction of a reader (newInputReader, newSelectInputReader)
    reader,        \* the io.Reader passed in: whether it is an *os.File, its fd
    built,         \* what the constructor returned: "none" until it has run
    pipe           \* the descriptors of cancelSignalReader and cancelSignalWriter

svars == <<reader, built, pipe>>

vars == <<rvars, lvars, svars>>

\* ------------------------------------------------- cancelable input reader

Strategies == {"epoll", "select"}
Cancellers == 1..NumCancellers

NoCall == [waited |-> FALSE, hit |-> FALSE, quiet |-> FALSE]

\* cancelMixin.isCancelled
isCancelled == cancelled

\* cancelMixin.setCancelled
setCancelled == cancelled' = TRUE

\* The release steps of Close, in the order the code takes them.
CloseSteps(s) ==
    IF s = "epoll" THEN <<"epoll", "writer", "reader">>
                   ELSE <<"writer", "reader">>

\* The descriptors the wait primitive reports readable.
Ready ==
    (IF Len(file) > 0 THEN {"file"} ELSE {}) \cup
    (IF cancelSignal > 0 THEN {"signal"} ELSE {})

\* epollInputReader.wait: EpollWait fills a one-event buffer, so exactly one
\* ready descriptor is reported; which one, when both are ready, is the
\* kernel's choice.  The file descriptor means nil, the signal descriptor
\* errCanceled.
EpollWaitOutcomes(ready) ==
    (IF "file" \in ready THEN {"ok"} ELSE {}) \cup
    (IF "signal" \in ready THEN {"canceled"} ELSE {})

\* waitForRead: select reports every ready descriptor and the abort
\* descriptor is tested first.
SelectWaitOutcomes(ready) ==
    IF "signal" \in ready THEN {"canceled"}
    ELSE IF "file" \in ready THEN {"ok"}
    ELSE {}

\* unix.FD_SETSIZE: select cannot represent a descriptor of this number or
\* above.
FD_SETSIZE == 1024

\* waitForRead(reader, abort): the larger descriptor is tested against
\* FD_SETSIZE before select is called.
waitForRead(readerFd, abortFd, ready) ==
    LET maxFd == IF abortFd > readerFd THEN abortFd ELSE readerFd IN
    IF maxFd >= FD_SETSIZE THEN {"unrepresentable"}
    ELSE SelectWaitOutcomes(ready)

WaitOutcomes(s, ready) ==
    IF s = "epoll" THEN EpollWaitOutcomes(ready)
    ELSE waitForRead(reader.fd, pipe.r, ready)

\* A ReadInput call is blocked: it is inside the wait and the wait cannot
\* return.
Blocked == rpc = "wait" /\ WaitOutcomes(strategy, Ready) = {}

\* A finished call's record.
Result(kind, late) ==
    [kind |-> kind, late |-> late, waited |-> cur.waited, hit |-> cur.hit,
     quiet |-> cur.quiet]

\* A byte becomes readable on the target stream.
InputArrives ==
    /\ arrived < MaxInput
    /\ arrived' = arrived + 1
    /\ file' = Append(file, [late |-> cancelled])
    /\ UNCHANGED <<strategy, cancelled, cancelSignal, closed, rpc, cur, rets,
                   cpc, crets, wakes, closeRets, closeFails, intr, quietCancel>>
    /\ UNCHANGED <<lvars, svars>>

\* A ReadInput that enters the wait without looking at the flag.
ReadInputEnterNoCheck ==
    /\ built = strategy
    /\ rpc = "idle"
    /\ Len(rets) < MaxReads
    /\ closeRets = <<>>
    /\ rpc' = "wait"
    /\ cur' = [waited |-> FALSE, hit |-> FALSE, quiet |-> quietCancel]
    /\ UNCHANGED <<strategy, cancelled, cancelSignal, file, closed, cpc, crets,
                   wakes, closeRets, closeFails, arrived, intr, quietCancel,
                   rets>>
    /\ UNCHANGED <<lvars, svars>>

\* ReadInput, up to the wait: the call returns errCanceled at once when the
\* flag is set, and otherwise enters the wait.
ReadInputEnter ==
    /\ built = strategy
    /\ rpc = "idle"
    /\ Len(rets) < MaxReads
    /\ closeRets = <<>>
    /\ LET c == [waited |-> FALSE, hit |-> FALSE, quiet |-> quietCancel] IN
       IF isCancelled
       THEN /\ rets' = Append(rets, [kind |-> "canceled", late |-> FALSE,
                                     waited |-> c.waited, hit |-> c.hit,
                                     quiet |-> c.quiet])
            /\ UNCHANGED <<rpc, cur>>
       ELSE /\ rpc' = "wait"
            /\ cur' = c
            /\ UNCHANGED rets
    /\ UNCHANGED <<strategy, cancelled, cancelSignal, file, closed, cpc, crets,
                   wakes, closeRets, closeFails, arrived, intr, quietCancel>>
    /\ UNCHANGED <<lvars, svars>>

\* The wait syscall returns EINTR and is tried again, any number of times.
WaitInterrupted ==
    /\ rpc = "wait"
    /\ intr' = TRUE
    /\ UNCHANGED <<strategy, cancelled, cancelSignal, file, closed, rpc, cur,
                   rets, cpc, crets, wakes, closeRets, closeFails, arrived,
                   quietCancel>>
    /\ UNCHANGED <<lvars, svars>>

\* The wait returns: r.wait() of the epoll reader, waitForRead of the select
\* reader.  ReadInput returns at once an error that is neither EINTR nor
\* errCanceled.
WaitReturns ==
    /\ rpc = "wait"
    /\ \E o \in WaitOutcomes(strategy, Ready) :
          IF o = "unrepresentable"
          THEN /\ rets' = Append(rets, [Result("error", FALSE)
                                           EXCEPT !.waited = TRUE])
               /\ rpc' = "idle"
               /\ cur' = NoCall
          ELSE /\ rpc' = IF o = "canceled" THEN "drain" ELSE "parse"
               /\ cur' = [cur EXCEPT !.waited = TRUE]
               /\ UNCHANGED rets
    /\ intr' = FALSE
    /\ UNCHANGED <<strategy, cancelled, cancelSignal, file, closed, cpc,
                   crets, wakes, closeRets, closeFails, arrived, quietCancel>>
    /\ UNCHANGED <<lvars, svars>>

\* ReadInput after the wait said errCanceled: one byte is read from the
\* signal pipe and errCanceled is returned.
DrainSignal ==
    /\ rpc = "drain"
    /\ IF "reader" \in closed
       THEN /\ rets' = Append(rets, Result("error", FALSE))
            /\ UNCHANGED cancelSignal
       ELSE /\ cancelSignal' = cancelSignal - 1
            /\ rets' = Append(rets, Result("canceled", FALSE))
    /\ rpc' = "idle"
    /\ cur' = NoCall
    /\ UNCHANGED <<strategy, cancelled, file, closed, cpc, crets, wakes,
                   closeRets, closeFails, arrived, intr, quietCancel>>
    /\ UNCHANGED <<lvars, svars>>

\* ReadInput after the wait said nil: the decoder takes the next event off
\* the stream and the call returns the message, or the decoder's error.
ParseInput ==
    /\ rpc = "parse"
    /\ \E ok \in BOOLEAN :
          rets' = Append(rets, Result(IF ok THEN "msg" ELSE "error",
                                      Head(file).late))
    /\ file' = Tail(file)
    /\ rpc' = "idle"
    /\ cur' = NoCall
    /\ UNCHANGED <<strategy, cancelled, cancelSignal, closed, cpc, crets,
                   wakes, closeRets, closeFails, arrived, intr, quietCancel>>
    /\ UNCHANGED <<lvars, svars>>

\* Cancel, first statement: r.setCancelled().
CancelSet(c) ==
    /\ built = strategy
    /\ cpc[c] = "idle"
    /\ setCancelled
    /\ cpc' = [cpc EXCEPT ![c] = "write"]
    /\ cur' = IF Blocked THEN [cur EXCEPT !.hit = TRUE] ELSE cur
    /\ UNCHANGED <<strategy, cancelSignal, file, closed, rpc, rets, crets,
                   wakes, closeRets, closeFails, arrived, intr, quietCancel>>
    /\ UNCHANGED <<lvars, svars>>

\* Cancel, second statement: one byte is written to the signal pipe and the
\* call returns whether the write succeeded.
WakeWrite(c) ==
    IF "writer" \in closed
    THEN /\ crets' = [crets EXCEPT ![c] = "false"]
         /\ UNCHANGED <<cancelSignal, wakes>>
    ELSE /\ cancelSignal' = cancelSignal + 1
         /\ wakes' = wakes + 1
         /\ crets' = [crets EXCEPT ![c] = "true"]

CancelWrite(c) ==
    /\ cpc[c] = "write"
    /\ WakeWrite(c)
    /\ cpc' = [cpc EXCEPT ![c] = "done"]
    /\ quietCancel' = (quietCancel \/ rpc = "idle")
    /\ UNCHANGED <<strategy, cancelled, file, closed, rpc, cur, rets,
                   closeRets, closeFails, arrived, intr>>
    /\ UNCHANGED <<lvars, svars>>

\* One release step of Close: its message joins errMsgs when it fails.
Release(step, failing, errMsgs) ==
    IF step \in failing THEN Append(errMsgs, step) ELSE errMsgs

\* A Close that returns at the first failed step.
CloseBodyStopsAtFirst(s, failing) ==
    LET steps == CloseSteps(s)
        bad == {i \in 1..Len(steps) : steps[i] \in failing}
        last == IF bad = {} THEN Len(steps)
                ELSE CHOOSE i \in bad : \A j \in bad : i <= j
    IN  [errMsgs |-> IF bad = {} THEN <<>> ELSE <<steps[last]>>,
         released |-> {steps[i] : i \in 1..last}]

\* The body of Close: the epoll descriptor (epoll reader only), the signal
\* writer and the signal reader are released in turn, whatever the earlier
\* steps returned, and errMsgs collects the message of each failure.
CloseBody(s, failing) ==
    LET e0 == IF s = "epoll" THEN Release("epoll", failing, <<>>) ELSE <<>>
        e1 == Release("writer", failing, e0)
        e2 == Release("reader", failing, e1)
    IN  [errMsgs |-> e2,
         released |-> (IF s = "epoll" THEN {"epoll"} ELSE {})
                        \cup {"writer", "reader"}]

\* Close.  A release step fails when its descriptor is already closed or
\* when the operating system reports a failure; the descriptor is gone
\* either way.  The owner calls Close only when no ReadInput is in flight.
Close ==
    /\ built = strategy
    /\ rpc = "idle"
    /\ Len(closeRets) < MaxClose
    /\ \E osFail \in SUBSET {CloseSteps(strategy)[i] :
                                 i \in 1..Len(CloseSteps(strategy))} :
          LET failing == osFail \cup closed
              run == CloseBody(strategy, failing)
          IN  /\ closeRets' = Append(closeRets, run.errMsgs)
              /\ closeFails' = Append(closeFails, failing)
              /\ closed' = closed \cup run.released
    /\ UNCHANGED <<strategy, cancelled, cancelSignal, file, rpc, cur, rets,
                   cpc, crets, wakes, arrived, intr, quietCancel>>
    /\ UNCHANGED <<lvars, svars>>

\* ------------------------------------------------- runtime loop: values

\* A Cmd is a record: its kind, its identity, and (a Batch closure) the
\* commands it carries.  The nil Cmd has no identity.
NilCmd == [kind |-> "nil", id |-> 0, cmds |-> <<>>]
Single(kind, n) == [kind |-> kind, id |-> n, cmds |-> <<>>]

\* Batch(cmds...): nil for no commands, else a Cmd returning batchMsg(cmds).
Batch(n, cmds) ==
    IF Len(cmds) = 0 THEN NilCmd ELSE [kind |-> "batch", id |-> n, cmds |-> cmds]

\* The Cmds an Init or Update function may return when n is the next fresh
\* identity: nil, Quit, a command resolving to a message of the
\* application, a command resolving to the nil Msg, or a Batch of two
\* (one of them nil, or both resolving to a message of the application).
AllCmds(n) ==
    {NilCmd}
    \cup (IF n <= MaxCmds
          THEN {Single("quit", n), Single("custom", n), Single("nomsg", n)}
          ELSE {})
    \cup (IF n + 1 <= MaxCmds
          THEN {Batch(n, <<NilCmd, Single("custom", n + 1)>>)}
          ELSE {})
    \cup (IF n + 2 <= MaxCmds
          THEN {Batch(n, <<Single("custom", n + 1), Single("custom", n + 2)>>)}
          ELSE {})

\* The shape of a Cmd: its kind and, for a Batch, its members' kinds.
Shape(c) == <<c.kind, [i \in 1..Len(c.cmds) |-> c.cmds[i].kind]>>

\* The shapes an application may use.
AllShapes ==
    {<<"nil", <<>> >>, <<"quit", <<>> >>, <<"custom", <<>> >>,
     <<"nomsg", <<>> >>, <<"batch", <<"nil", "custom">> >>,
     <<"batch", <<"custom", "custom">> >>}

\* The shapes of an application whose commands all resolve to a message.
PlainShapes ==
    {<<"nil", <<>> >>, <<"quit", <<>> >>, <<"custom", <<>> >>,
     <<"batch", <<"custom", "custom">> >>}

\* The Cmds the init and update functions of Program p may return.
AppCmds(n) == {c \in AllCmds(n) : Shape(c) \in p.shapes}

\* The identities a Cmd uses up.
IdsUsed(c) ==
    IF c.kind = "nil" THEN 0
    ELSE 1 + Cardinality({i \in 1..Len(c.cmds) : c.cmds[i].kind # "nil"})

\* Both members of a Batch of two resolve to a message of the application.
TwoCustom(c) ==
    /\ c.kind = "batch"
    /\ Len(c.cmds) = 2
    /\ \A i \in 1..2 : c.cmds[i].kind = "custom"

\* The Msg a Cmd returns when it is invoked.
MsgOf(c) ==
    [kind |-> CASE c.kind = "quit" -> "quit"
                [] c.kind = "custom" -> "custom"
                [] c.kind = "batch" -> "batch"
                [] OTHER -> "nil",
     id |-> c.id, cmds |-> c.cmds]

\* KeyMsg(msg) for the k-th key read; 0 is the zero key.
KeyMsg(k) == [kind |-> "key", id |-> k, cmds |-> <<>>]

\* The application's models and their views.  A view is a string, kept as
\* the sequence of its characters.
Models == 0..1
View(m) ==
    CASE m = 0 -> <<"a", "LF">>
      [] m = 1 -> <<"a", "LF", "b", "LF", "c", "LF">>
      [] OTHER -> <<"a", "LF", "b">>

\* The models of an application one of whose views does not end in a
\* line end.
RenderModels == 0..2

\* strings.Replace(view, "\n", "\r\n", -1)
RECURSIVE ReplaceLF(_)
ReplaceLF(view) ==
    IF view = <<>> THEN <<>>
    ELSE IF Head(view) = "LF" THEN <<"CR", "LF">> \o ReplaceLF(Tail(view))
    ELSE <<Head(view)>> \o ReplaceLF(Tail(view))

\* strings.Count(view, "\r\n")
CountCRLF(view) ==
    Cardinality({i \in 1..(Len(view) - 1) :
                    view[i] = "CR" /\ view[i + 1] = "LF"})

NoPaint == [cleared |-> 0, wrote |-> <<>>, prev |-> 0, prevWrote |-> <<>>]

NoGhost ==
    [quitSeen |-> FALSE, rendersAtQuit |-> 0,
     readFailed |-> FALSE, updAtFail |-> 0,
     inBatch |-> FALSE, batch |-> <<>>, batchStart |-> 0,
     rendersAtBatch |-> 0, updAtBatch |-> 0,
     batched |-> {}, initCmd |-> NilCmd,
     nilFromUpdate |-> FALSE, startedAfterDone |-> FALSE,
     plainRecv |-> 0, lastPlain |-> [kind |-> "none", id |-> 0, cmds |-> <<>>],
     updOn |-> 0,
     invoked |-> [id \in 1..MaxCmds |-> 0],
     offered |-> [id \in 1..MaxCmds |-> 0]]

\* The descriptor numbers a process may hold, around the select ceiling.
Fds == {0, FD_SETSIZE - 1, FD_SETSIZE, FD_SETSIZE + 1}

NoPipe == [r |-> -1, w |-> -1]

\* The fields of a reader of strategy s, as its constructor leaves them.
ReaderFieldsInit(s) ==
    /\ strategy = s
    /\ cancelled = FALSE
    /\ cancelSignal = 0
    /\ file = <<>>
    /\ closed = {}
    /\ rpc = "idle"
    /\ cur = NoCall
    /\ rets = <<>>
    /\ cpc = [c \in Cancellers |-> "idle"]
    /\ crets = [c \in Cancellers |-> "none"]
    /\ wakes = 0
    /\ closeRets = <<>>
    /\ closeFails = <<>>
    /\ arrived = 0
    /\ intr = FALSE
    /\ quietCancel = FALSE

\* A reader of strategy s whose constructor has returned it: the stream is
\* standard input and the pipe has the next free descriptors.
ReaderVarsInit(s) ==
    /\ reader = [isFile |-> TRUE, fd |-> 0]
    /\ built = s
    /\ pipe = [r |-> 3, w |-> 4]
    /\ ReaderFieldsInit(s)

\* NewProgram(init, update, view)
NewProgram(models, shapes) == [models |-> models, shapes |-> shapes]

LoopVarsInit ==
    /\ mpc = "start"
    /\ startRet = "none"
    /\ rawHeld = FALSE
    /\ rawEnters = 0
    /\ restores = 0
    /\ model = 0
    /\ cmd = NilCmd
    /\ todo = <<>>
    /\ linesRendered = 0
    /\ renders = 0
    /\ lastPaint = NoPaint
    /\ done = FALSE
    /\ initSend = <<>>
    /\ ppc = "off"
    /\ keysRead = 0
    /\ dpc = "off"
    /\ running = {}
    /\ sending = {}
    /\ nextId = 1
    /\ updLog = <<>>
    /\ dispLog = <<>>
    /\ ghost = NoGhost

ReaderInit ==
    /\ \E s \in Strategies : ReaderVarsInit(s)
    /\ LoopVarsInit
    /\ p = NewProgram(Models, AllShapes)

ReaderNext ==
    \/ InputArrives
    \/ ReadInputEnter
    \/ WaitInterrupted
    \/ WaitReturns
    \/ DrainSignal
    \/ ParseInput
    \/ \E c \in Cancellers : CancelSet(c)
    \/ \E c \in Cancellers : CancelWrite(c)
    \/ Close

ReaderSpec == ReaderInit /\ [][ReaderNext]_vars

\* newSelectInputReader(reader): the fallback reader for a reader that is
\* not a file or whose descriptor is FD_SETSIZE or above; otherwise a select
\* reader with a fresh pipe, whose descriptors are any two the process does
\* not hold, or the error of os.Pipe.
newSelectInputReader ==
    /\ built = "none"
    /\ IF ~reader.isFile \/ reader.fd >= FD_SETSIZE
       THEN /\ built' = "fallback"
            /\ UNCHANGED pipe
       ELSE \E ok \in BOOLEAN :
               IF ok
               THEN /\ \E r, w \in Fds \ {reader.fd} :
                          /\ r # w
                          /\ pipe' = [r |-> r, w |-> w]
                    /\ built' = "select"
               ELSE /\ built' = "error"
                    /\ UNCHANGED pipe
    /\ UNCHANGED <<reader, rvars, lvars>>

\* The io.Readers a caller may pass: one that is no file, or a file with
\* any descriptor.
Readers ==
    {[isFile |-> FALSE, fd |-> -1]} \cup {[isFile |-> TRUE, fd |-> f] : f \in Fds}

\* Before newSelectInputReader is called.
SelectInit ==
    /\ reader \in Readers
    /\ built = "none"
    /\ pipe = NoPipe
    /\ ReaderFieldsInit("select")
    /\ LoopVarsInit
    /\ p = NewProgram(Models, AllShapes)

SelectNext == newSelectInputReader \/ ReaderNext

\* The select reader from its construction on.
SelectSpec == SelectInit /\ [][SelectNext]_vars

\* The steps of the thread that is inside ReadInput, once the wait can
\* return.
ReaderThread == WaitReturns \/ DrainSignal \/ ParseInput

\* A thread that can run does run: the reader thread leaves a wait that can
\* return, and a Cancel call that has set the flag goes on to its write.
ReaderFairSpec ==
    /\ ReaderSpec
    /\ WF_vars(ReaderThread)
    /\ WF_vars(\E c \in Cancellers : CancelWrite(c))

\* ------------------------------------------------ properties of the reader

Returned == 1..Len(rets)

\* C1: if Cancel is called while a ReadInput call is blocked in its wait,
\* that call returns, and what it returns is the cancellation outcome
\* errCanceled.  Stated on the finished calls: a call that was blocked when
\* Cancel was called has returned nothing but errCanceled.
C1_BlockedCallReturnsCanceled ==
    \A i \in Returned : rets[i].hit => rets[i].kind = "canceled"

\* The part of C1 that holds, under ReaderFairSpec: a call that was blocked
\* when Cancel was called does return.
BlockedCallReturns == (rpc = "wait" /\ cur.hit) ~> (rpc = "idle")

\* C2: no ReadInput call returns a decoded message for bytes that arrived
\* on the target stream after Cancel set the cancellation flag.
C2_NoMessageForLateBytes ==
    \A i \in Returned : rets[i].kind = "msg" => ~rets[i].late

\* C3: once a Cancel call has completed while no ReadInput call was in
\* flight, every ReadInput call made from then on returns errCanceled
\* without entering the wait and without decoding, data pending or not.
C3_CancelledReaderReturnsAtOnce ==
    /\ quietCancel => rpc = "idle" /\ ~cur.quiet
    /\ \A i \in Returned :
          rets[i].quiet => rets[i].kind = "canceled" /\ ~rets[i].waited

\* C3's case: after such a Cancel, two ReadInput calls have returned while
\* input was pending on the stream.
C3_Witness ==
    /\ Len(file) > 0
    /\ \E i, j \in Returned : i < j /\ rets[i].quiet /\ rets[j].quiet

\* C4: a second Cancel call is a no-op: it leaves the number of wake bytes
\* as the first call left it, so there is never more than one wake signal
\* per cancellation.
C4_SecondCancelWritesNothing == wakes <= 1

\* C12: the select reader is refused at construction, and the fallback
\* reader returned, whenever the descriptor of the stream or the read
\* descriptor of the signal pipe is FD_SETSIZE or above: no select reader
\* exists with a descriptor that select cannot represent.
C12_SelectRefusedAtCeiling ==
    /\ built = "select" =>
          reader.fd < FD_SETSIZE /\ pipe.r < FD_SETSIZE
    /\ (built # "none" /\ reader.fd >= FD_SETSIZE) => built = "fallback"

\* What follows from C12's failure: a ReadInput call of such a reader has
\* returned the error of waitForRead although nothing was cancelled and no
\* descriptor was closed.
C12_ReadFailsOnPipe ==
    /\ built = "select"
    /\ pipe.r >= FD_SETSIZE
    /\ ~cancelled
    /\ closed = {}
    /\ \E i \in 1..Len(rets) : rets[i].kind = "error" /\ rets[i].waited

\* Exactly one Cancel call has been made, and it has returned.
OneCancelDone ==
    /\ Cardinality({c \in Cancellers : cpc[c] # "idle"}) = 1
    /\ \A c \in Cancellers : cpc[c] \in {"idle", "done"}

\* C14: after exactly one Cancel call, once a ReadInput call has returned
\* errCanceled, the signal pipe holds no wake byte, whether the Cancel call
\* found a read blocked or no read in flight.
C14_CanceledReadDrainsSignal ==
    (OneCancelDone /\ \E i \in Returned : rets[i].kind = "canceled")
        => cancelSignal = 0

\* The part of C14 that holds: a ReadInput call that the wait woke for the
\* signal has taken the one wake byte off the pipe.
WokenReadDrainsSignal ==
    (OneCancelDone /\ \E i \in Returned :
                         rets[i].kind = "canceled" /\ rets[i].waited)
        => cancelSignal = 0

\* C5: every Close call attempts every release step of its reader and
\* returns exactly the failures, in step order: no error when no step
\* failed, and otherwise one entry for each step that failed.
C5_CloseReportsEveryFailure ==
    \A i \in 1..Len(closeRets) :
        LET Failed(step) == step \in closeFails[i] IN
        /\ closeRets[i] = SelectSeq(CloseSteps(strategy), Failed)
        /\ (closeRets[i] = <<>>) <=>
             (\A k \in 1..Len(CloseSteps(strategy)) :
                 ~Failed(CloseSteps(strategy)[k]))
        /\ \A k \in 1..Len(CloseSteps(strategy)) :
             CloseSteps(strategy)[k] \in closed

\* C5's case: Close was called after a completed Cancel, its first step
\* failed and so did a later one, and both failures are reported.
C5_Witness ==
    /\ \E c \in Cancellers : cpc[c] = "done"
    /\ Len(closeRets) = 1
    /\ Len(closeRets[1]) = 2
    /\ closeRets[1][1] = CloseSteps(strategy)[1]

\* ------------------------------------------------ runtime loop: Start

\* A return path that leaves the terminal as it is.
RestoreTerminalSkipped == UNCHANGED <<rawHeld, restores>>

\* restoreTerminal()
RestoreTerminal ==
    /\ rawHeld' = FALSE
    /\ restores' = restores + 1

\* A return from Start after `defer restoreTerminal()`: the deferred call
\* runs as the function returns.
Return(v) ==
    /\ mpc' = "returned"
    /\ startRet' = v
    /\ RestoreTerminal

\* A render that clears and writes but returns the count it was given.
RenderKeepsCount ==
    LET view == ReplaceLF(View(model)) IN
    /\ lastPaint' = [cleared |-> IF linesRendered > 0 THEN linesRendered ELSE 0,
                     wrote |-> view, prev |-> linesRendered,
                     prevWrote |-> lastPaint.wrote]
    /\ linesRendered' = linesRendered
    /\ renders' = renders + 1

\* p.render(model, linesRendered): the view with its line ends normalised
\* is written after the recorded lines are cleared; the result is the
\* number of line ends written.
Render ==
    LET view == ReplaceLF(View(model)) IN
    /\ lastPaint' = [cleared |-> IF linesRendered > 0 THEN linesRendered ELSE 0,
                     wrote |-> view, prev |-> linesRendered,
                     prevWrote |-> lastPaint.wrote]
    /\ linesRendered' = CountCRLF(view)
    /\ renders' = renders + 1

\* err := initTerminal(); on an error Start returns it, and otherwise the
\* restore is deferred.
InitTerminal ==
    /\ mpc = "start"
    /\ \E ok \in BOOLEAN :
          IF ok
          THEN /\ rawHeld' = TRUE
               /\ mpc' = "init"
               /\ UNCHANGED startRet
          ELSE /\ mpc' = "returned"
               /\ startRet' = "initErr"
               /\ UNCHANGED rawHeld
    /\ rawEnters' = rawEnters + 1
    /\ UNCHANGED <<restores, model, cmd, todo, linesRendered, renders,
                   lastPaint, done, initSend, ppc, keysRead, dpc, running,
                   sending, nextId, updLog, dispLog, ghost>>
    /\ UNCHANGED <<p, rvars, svars>>

\* model, cmd = p.init(); a non-nil cmd gets a goroutine that sends it on
\* cmds.
ProgramInit ==
    /\ mpc = "init"
    /\ \E m \in p.models, c \in AppCmds(nextId) :
          /\ model' = m
          /\ cmd' = c
          /\ nextId' = nextId + IdsUsed(c)
          /\ initSend' = IF c # NilCmd THEN <<c>> ELSE <<>>
          /\ ghost' = [ghost EXCEPT
                          !.initCmd = c,
                          !.batched = IF TwoCustom(c)
                                      THEN {c.cmds[1].id, c.cmds[2].id} ELSE @]
    /\ mpc' = "render"
    /\ UNCHANGED <<startRet, rawHeld, rawEnters, restores, todo, linesRendered,
                   renders, lastPaint, done, ppc, keysRead, dpc, running,
                   sending, updLog, dispLog>>
    /\ UNCHANGED <<p, rvars, svars>>

\* A first paint that waits until the initial command has been taken.
RenderInitialWaits ==
    /\ mpc = "render"
    /\ initSend = <<>>
    /\ Render
    /\ mpc' = "spawn"
    /\ UNCHANGED <<startRet, rawHeld, rawEnters, restores, model, cmd, todo,
                   done, initSend, ppc, keysRead, dpc, running, sending, nextId,
                   updLog, dispLog, ghost>>
    /\ UNCHANGED <<p, rvars, svars>>

\* linesRendered = p.render(model, linesRendered), the initial view.
RenderInitial ==
    /\ mpc = "render"
    /\ Render
    /\ mpc' = "spawn"
    /\ UNCHANGED <<startRet, rawHeld, rawEnters, restores, model, cmd, todo,
                   done, initSend, ppc, keysRead, dpc, running, sending, nextId,
                   updLog, dispLog, ghost>>
    /\ UNCHANGED <<p, rvars, svars>>

\* The two go statements: the input pump and the command dispatcher start,
\* and the main goroutine enters its loop.
SpawnBackground ==
    /\ mpc = "spawn"
    /\ ppc' = "read"
    /\ dpc' = "run"
    /\ mpc' = "select"
    /\ UNCHANGED <<startRet, rawHeld, rawEnters, restores, model, cmd, todo,
                   linesRendered, renders, lastPaint, done, initSend, keysRead,
                   running, sending, nextId, updLog, dispLog, ghost>>
    /\ UNCHANGED <<p, rvars, svars>>

\* The input pump: ReadKey(os.Stdin) returns a key or an error.
PumpReadKey ==
    /\ ppc = "read"
    /\ keysRead < MaxKeys
    /\ keysRead' = keysRead + 1
    /\ \E ok \in BOOLEAN :
          IF ok
          THEN /\ ppc' = "sendKey"
               /\ UNCHANGED ghost
          ELSE /\ ppc' = "sendErr"
               /\ ghost' = IF mpc = "returned" THEN ghost
                           ELSE [ghost EXCEPT !.readFailed = TRUE,
                                              !.updAtFail = Len(updLog)]
    /\ UNCHANGED <<mpc, startRet, rawHeld, rawEnters, restores, model, cmd,
                   todo, linesRendered, renders, lastPaint, done, initSend, dpc,
                   running, sending, nextId, updLog, dispLog>>
    /\ UNCHANGED <<p, rvars, svars>>

\* case err := <-errs: close(done); return err.  The pump's send on errs
\* completes, and the pump goes on to its send on msgs.
MainRecvErr ==
    /\ mpc = "select"
    /\ ppc = "sendErr"
    /\ ppc' = "sendZero"
    /\ done' = TRUE
    /\ Return("readErr")
    /\ UNCHANGED <<rawEnters, model, cmd, todo, linesRendered, renders,
                   lastPaint, initSend, keysRead, dpc, running, sending, nextId,
                   updLog, dispLog, ghost>>
    /\ UNCHANGED <<p, rvars, svars>>

\* A loop that knows no quit message.
IsQuitNever(m) == FALSE

\* msg.(quitMsg)
IsQuit(m) == m.kind = "quit"

\* msg.(batchMsg)
IsBatch(m) == m.kind = "batch"

\* A range loop that sends only the first command of a batch.
BatchedCmdsFirstOnly(m) == <<Head(m.cmds)>>

\* A range loop that walks the batch from its end.
BatchedCmdsReversed(m) ==
    [i \in 1..Len(m.cmds) |-> m.cmds[Len(m.cmds) + 1 - i]]

\* range batchedCmds: the commands of a batch message, in the order the
\* loop sends them.
BatchedCmds(m) == m.cmds

\* What the properties record when the main loop receives m from msgs.
GhostOnRecv(m) ==
    [ghost EXCEPT
       !.quitSeen = @ \/ m.kind = "quit",
       !.rendersAtQuit = IF m.kind = "quit" THEN renders ELSE @,
       !.inBatch = m.kind = "batch",
       !.batch = IF m.kind = "batch" THEN m.cmds ELSE <<>>,
       !.batchStart = IF m.kind = "batch" THEN Len(dispLog) ELSE 0,
       !.rendersAtBatch = IF m.kind = "batch" THEN renders ELSE 0,
       !.updAtBatch = IF m.kind = "batch" THEN Len(updLog) ELSE 0,
       !.plainRecv = IF m.kind \in {"quit", "batch"} THEN @ ELSE @ + 1,
       !.lastPlain = IF m.kind \in {"quit", "batch"} THEN @ ELSE m]

\* case msg := <-msgs, up to the first send on cmds: a quit message ends
\* Start, a batch message starts the range loop, and any other message goes
\* to update.
Receive(m) ==
    IF IsQuit(m)
    THEN /\ done' = TRUE
         /\ Return("nil")
         /\ ghost' = GhostOnRecv(m)
         /\ UNCHANGED <<model, cmd, todo, nextId, updLog>>
    ELSE IF IsBatch(m)
    THEN /\ todo' = BatchedCmds(m)
         /\ mpc' = IF BatchedCmds(m) = <<>> THEN "select" ELSE "batch"
         /\ ghost' = GhostOnRecv(m)
         /\ UNCHANGED <<startRet, rawHeld, restores, done, model, cmd, nextId,
                        updLog>>
    ELSE /\ \E m2 \in p.models, c \in AppCmds(nextId) :
               /\ model' = m2
               /\ cmd' = c
               /\ nextId' = nextId + IdsUsed(c)
               /\ ghost' = [GhostOnRecv(m) EXCEPT
                               !.updOn = model,
                               !.batched = IF TwoCustom(c)
                                           THEN @ \cup {c.cmds[1].id, c.cmds[2].id}
                                           ELSE @]
         /\ updLog' = Append(updLog, m)
         /\ mpc' = "send"
         /\ UNCHANGED <<startRet, rawHeld, restores, done, todo>>

\* The main loop receives the pump's message.
MainRecvKey ==
    /\ mpc = "select"
    /\ ppc \in {"sendKey", "sendZero"}
    /\ Receive(KeyMsg(IF ppc = "sendKey" THEN keysRead ELSE 0))
    /\ ppc' = "read"
    /\ UNCHANGED <<rawEnters, linesRendered, renders, lastPaint, initSend,
                   keysRead, dpc, running, sending, dispLog>>
    /\ UNCHANGED <<p, rvars, svars>>

\* The main loop receives a command's result.
MainRecvResult ==
    /\ mpc = "select"
    /\ \E m \in sending :
          /\ Receive(m)
          /\ sending' = sending \ {m}
    /\ UNCHANGED <<rawEnters, linesRendered, renders, lastPaint, initSend, ppc,
                   keysRead, dpc, running, dispLog>>
    /\ UNCHANGED <<p, rvars, svars>>

\* A dispatcher that invokes the command itself and so stays with it.
DispatcherRunsInline(c, from) ==
    /\ dispLog' = Append(dispLog, c)
    /\ running' = IF c # NilCmd THEN running \cup {c} ELSE running
    /\ ghost' = IF c # NilCmd
                THEN [ghost EXCEPT !.invoked[c.id] = @ + 1,
                                   !.startedAfterDone = @ \/ done]
                ELSE [ghost EXCEPT !.nilFromUpdate = @ \/ from = "update"]
    /\ dpc' = IF c # NilCmd THEN "busy" ELSE "run"

\* case cmd := <-cmds in the dispatcher: a non-nil command gets a goroutine
\* that invokes it, and the dispatcher is back at its select.  The sender
\* is the main loop after update ("update"), the range loop over a batch
\* ("batch") or the initial-command goroutine ("init").
DispatcherReceives(c, from) ==
    /\ dpc' = "run"
    /\ dispLog' = Append(dispLog, c)
    /\ running' = IF c # NilCmd THEN running \cup {c} ELSE running
    /\ ghost' = IF c # NilCmd
                THEN [ghost EXCEPT !.invoked[c.id] = @ + 1,
                                   !.startedAfterDone = @ \/ done]
                ELSE [ghost EXCEPT !.nilFromUpdate = @ \/ from = "update"]

\* cmds <- cmd inside the range loop over a batch, taken by the dispatcher.
MainSendBatched ==
    /\ mpc = "batch"
    /\ dpc = "run"
    /\ DispatcherReceives(Head(todo), "batch")
    /\ todo' = Tail(todo)
    /\ mpc' = IF Tail(todo) = <<>> THEN "select" ELSE "batch"
    /\ UNCHANGED <<startRet, rawHeld, rawEnters, restores, model, cmd,
                   linesRendered, renders, lastPaint, done, initSend, ppc,
                   keysRead, sending, nextId, updLog>>
    /\ UNCHANGED <<p, rvars, svars>>

\* A loop that goes back to its select after the send, without a repaint.
MainSendCmdNoRender ==
    /\ mpc = "send"
    /\ dpc = "run"
    /\ DispatcherReceives(cmd, "update")
    /\ mpc' = "select"
    /\ UNCHANGED <<startRet, rawHeld, rawEnters, restores, model, cmd, todo,
                   done, initSend, ppc, keysRead, sending, nextId, updLog,
                   linesRendered, renders, lastPaint>>
    /\ UNCHANGED <<p, rvars, svars>>

\* cmds <- cmd after update, taken by the dispatcher, and then
\* linesRendered = p.render(model, linesRendered): the render is local to
\* the main goroutine and follows the send at once.
MainSendCmd ==
    /\ mpc = "send"
    /\ dpc = "run"
    /\ DispatcherReceives(cmd, "update")
    /\ Render
    /\ mpc' = "select"
    /\ UNCHANGED <<startRet, rawHeld, rawEnters, restores, model, cmd, todo,
                   done, initSend, ppc, keysRead, sending, nextId, updLog>>
    /\ UNCHANGED <<p, rvars, svars>>

\* The initial-command goroutine's cmds <- cmd, taken by the dispatcher.
InitSenderSends ==
    /\ initSend # <<>>
    /\ dpc = "run"
    /\ DispatcherReceives(initSend[1], "init")
    /\ initSend' = <<>>
    /\ UNCHANGED <<mpc, startRet, rawHeld, rawEnters, restores, model, cmd,
                   todo, linesRendered, renders, lastPaint, done, ppc, keysRead,
                   sending, nextId, updLog>>
    /\ UNCHANGED <<p, rvars, svars>>

\* case <-done: return, in the dispatcher.
DispatcherExits ==
    /\ dpc = "run"
    /\ done
    /\ dpc' = "exited"
    /\ UNCHANGED <<mpc, startRet, rawHeld, rawEnters, restores, model, cmd,
                   todo, linesRendered, renders, lastPaint, done, initSend, ppc,
                   keysRead, running, sending, nextId, updLog, dispLog, ghost>>
    /\ UNCHANGED <<p, rvars, svars>>

\* A goroutine that offers its command's result and then runs the command
\* again.
OfferAndRepeat(c) ==
    /\ UNCHANGED running
    /\ sending' = sending \cup {MsgOf(c)}
    /\ ghost' = [ghost EXCEPT !.offered[c.id] = @ + 1]

\* msgs <- cmd(): cmd() has returned, its result is offered on msgs, and
\* the goroutine ends once the main loop takes it.
Offer(c) ==
    /\ running' = running \ {c}
    /\ sending' = sending \cup {MsgOf(c)}
    /\ ghost' = [ghost EXCEPT !.offered[c.id] = @ + 1]

\* A command's goroutine: cmd() returns and its result waits on msgs.
CmdReturns ==
    /\ \E c \in running : Offer(c)
    /\ UNCHANGED <<mpc, startRet, rawHeld, rawEnters, restores, model, cmd,
                   todo, linesRendered, renders, lastPaint, done, initSend, ppc,
                   keysRead, dpc, nextId, updLog, dispLog>>
    /\ UNCHANGED <<p, rvars, svars>>

\* Any application over the two views.
LoopInit ==
    /\ ReaderVarsInit("epoll")
    /\ LoopVarsInit
    /\ p = NewProgram(Models, AllShapes)

\* An application with one view whose commands all resolve to a message.
PlainInit ==
    /\ ReaderVarsInit("epoll")
    /\ LoopVarsInit
    /\ p = NewProgram({0}, PlainShapes)

\* An application with three views, one of them not ending in a line end,
\* whose commands all resolve to a message.
RenderInit ==
    /\ ReaderVarsInit("epoll")
    /\ LoopVarsInit
    /\ p = NewProgram(RenderModels, PlainShapes)

MainStep ==
    \/ InitTerminal
    \/ ProgramInit
    \/ RenderInitial
    \/ SpawnBackground
    \/ MainRecvErr
    \/ MainRecvKey
    \/ MainRecvResult
    \/ MainSendBatched
    \/ MainSendCmd

DispatcherStep == InitSenderSends \/ DispatcherExits

LoopNext ==
    \/ InitTerminal
    \/ ProgramInit
    \/ RenderInitial
    \/ SpawnBackground
    \/ PumpReadKey
    \/ MainRecvErr
    \/ MainRecvKey
    \/ MainRecvResult
    \/ MainSendBatched
    \/ MainSendCmd
    \/ InitSenderSends
    \/ DispatcherExits
    \/ CmdReturns

LoopSpec == LoopInit /\ [][LoopNext]_vars

RenderSpec == RenderInit /\ [][LoopNext]_vars

\* The Go scheduler runs every runnable goroutine: the main goroutine, the
\* dispatcher and the command goroutines each take a step they can take.
\* No key need ever be typed, so the pump's read has no fairness.
LoopFairSpec ==
    /\ PlainInit
    /\ [][LoopNext]_vars
    /\ WF_vars(MainStep)
    /\ WF_vars(DispatcherStep)
    /\ WF_vars(CmdReturns)

\* As LoopFairSpec, but a command need never return: the main goroutine
\* and the dispatcher take the steps they can take.
StartFairSpec ==
    /\ PlainInit
    /\ [][LoopNext]_vars
    /\ WF_vars(MainStep)
    /\ WF_vars(DispatcherStep)

\* ------------------------------------------------ properties of the loop

Updated == 1..Len(updLog)

\* The update calls made with the result of command id.
Delivered(id) ==
    Cardinality({i \in Updated : updLog[i].kind = "custom" /\ updLog[i].id = id})

\* C6: when the main loop receives a quit message, Start returns nil, the
\* quit message is never passed to update, and nothing is painted after the
\* quit message was received.
C6_QuitEndsStart ==
    /\ \A i \in Updated : updLog[i].kind # "quit"
    /\ ghost.quitSeen =>
          /\ mpc = "returned"
          /\ startRet = "nil"
          /\ renders = ghost.rendersAtQuit

\* C6's case: a quit message was received after update had run.
C6_Witness == ghost.quitSeen /\ Len(updLog) >= 1

\* C7: the two commands of a batch that each resolve to a message of the
\* application: unless Start returns first, each message reaches update,
\* and it reaches update once only, in either order.
C7_BatchedResultsReachUpdate ==
    /\ [](\A id \in ghost.batched : Delivered(id) <= 1)
    /\ \A id \in 1..MaxCmds :
          [](id \in ghost.batched =>
                <>(Delivered(id) = 1 \/ mpc = "returned"))

\* C7's case: both messages of a batch have reached update, the second
\* command's before the first's.
C7_Witness ==
    \E i, j \in Updated :
        /\ i < j
        /\ updLog[i].kind = "custom" /\ updLog[j].kind = "custom"
        /\ {updLog[i].id, updLog[j].id} \subseteq ghost.batched
        /\ updLog[i].id > updLog[j].id

\* C8: a batch message is never passed to update and paints nothing; its
\* commands are sent to the dispatcher one by one in the batch's order, so
\* what the dispatcher has received from the main loop since the batch
\* arrived, followed by what is still to be sent, is the batch.
C8_BatchEnqueuedInOrder ==
    /\ \A i \in Updated : updLog[i].kind # "batch"
    /\ ghost.inBatch =>
          LET FromMain(c) == ghost.initCmd = NilCmd \/ c # ghost.initCmd
              got == SelectSeq(SubSeq(dispLog, ghost.batchStart + 1,
                                      Len(dispLog)), FromMain)
          IN  /\ got \o todo = ghost.batch
              /\ renders = ghost.rendersAtBatch
              /\ Len(updLog) = ghost.updAtBatch

\* C8's case: both commands of a batch have been sent, and the second one's
\* result is waiting on msgs while the first one is still running.
C8_Witness ==
    /\ ghost.inBatch
    /\ mpc = "select"
    /\ Len(ghost.batch) = 2
    /\ ghost.batch[1] \in running
    /\ MsgOf(ghost.batch[2]) \in sending

\* C9: once an input read has failed, update is not invoked again, and
\* when Start returns it returns the read error, whatever command results
\* are pending.
C9_ReadErrorStopsUpdates ==
    ghost.readFailed =>
        /\ Len(updLog) = ghost.updAtFail
        /\ mpc = "returned" => startRet = "readErr"

\* C10: initTerminal is called once, at the start of Start; while Start
\* runs after it the terminal is held and not yet restored; and when Start
\* has returned the terminal is not held, having been restored once if raw
\* mode was acquired and never if initTerminal failed.
C10_RawModeScoped ==
    /\ mpc = "start" => rawEnters = 0 /\ restores = 0 /\ ~rawHeld
    /\ mpc # "start" => rawEnters = 1
    /\ mpc \notin {"start", "returned"} => rawHeld /\ restores = 0
    /\ mpc = "returned" =>
          /\ ~rawHeld
          /\ restores = IF startRet = "initErr" THEN 0 ELSE 1

\* C10's case: Start has returned a read error after acquiring raw mode.
C10_Witness ==
    /\ mpc = "returned"
    /\ startRet = "readErr"
    /\ rawEnters = 1

C15_NilCmdNotEnqueued ==
    /\ ~ghost.nilFromUpdate
    /\ NilCmd \notin running

\* The part of C15 that holds: the nil Cmd is never invoked, and nothing
\* is offered on msgs for it.
NilCmdNeverInvoked ==
    /\ NilCmd \notin running
    /\ MsgOf(NilCmd) \notin sending

\* C16: when an invoked command returns the nil Msg, nothing is offered on
\* msgs for it and update is never invoked with the nil Msg.
C16_NilMsgNotDelivered ==
    /\ \A m \in sending : m.kind # "nil"
    /\ \A i \in Updated : updLog[i].kind # "nil"

\* C17: update is called with the messages the main loop receives, in the
\* order it receives them, a quit or batch message excepted; each such
\* message gets one update call, made with the current model, and then one
\* repaint, of the model update returned, before the loop receives again:
\* between an update call and its repaint no message is received.
C17_OneUpdateOnePaintInOrder ==
    /\ Len(updLog) = ghost.plainRecv
    /\ Len(updLog) > 0 => updLog[Len(updLog)] = ghost.lastPlain
    /\ mpc = "send" =>
          /\ renders = Len(updLog)
          /\ lastPaint.wrote = ReplaceLF(View(ghost.updOn))
    /\ mpc \in {"select", "batch"} =>
          /\ renders = Len(updLog) + 1
          /\ lastPaint.wrote = ReplaceLF(View(model))
    /\ (mpc = "returned" /\ startRet # "initErr") =>
          /\ renders = Len(updLog) + 1
          /\ lastPaint.wrote = ReplaceLF(View(model))
    /\ Len(updLog) > 0 =>
          lastPaint.prevWrote = ReplaceLF(View(ghost.updOn))
             \/ mpc = "send"

\* C17's case: a key and then a command's result went to update, the
\* second call changed the model, and its repaint is done.
C17_Witness ==
    /\ mpc = "select"
    /\ Len(updLog) = 2
    /\ updLog[1].kind = "key"
    /\ updLog[2].kind = "custom"
    /\ ghost.updOn # model
    /\ renders = 3

\* C18: the first paint does not wait for the initial command: when the
\* initial view has just been painted the dispatcher has received nothing
\* and no command runs, a non-nil initial command being still with its
\* sender; the first paint does come once init has returned, whether or not
\* any command ever returns; and a non-nil initial command is handed to the
\* dispatcher once the loop runs, unless Start returns first.
C18_FirstPaintDoesNotWait ==
    /\ [](mpc = "spawn" =>
            /\ renders = 1
            /\ dispLog = <<>>
            /\ running = {}
            /\ ghost.initCmd # NilCmd => initSend = <<ghost.initCmd>>)
    /\ [](mpc = "render" => <>(renders >= 1))
    /\ [](initSend # <<>> => <>(initSend = <<>> \/ mpc = "returned"))

\* C18's case: the loop is running after the first paint and the initial
\* command, handed to the dispatcher, has not returned.
C18_Witness ==
    /\ mpc = "select"
    /\ renders >= 1
    /\ ghost.initCmd # NilCmd
    /\ ghost.initCmd \in running
    /\ initSend = <<>>

\* C19: once done is closed and Start has returned, the dispatcher
\* receives no command and starts none, whatever sender is still waiting
\* on cmds.
C19_NoCmdStartsAfterDone == ~ghost.startedAfterDone

\* C20: while the loop runs the main goroutine is never stuck in a send on
\* cmds: whenever it is sending, the Cmd update returned or a member of a
\* batch, the dispatcher is alive at its select, whatever commands are
\* still running, and the send is taken and the main goroutine comes back
\* to its own select.
C20_MainSendAlwaysTaken ==
    /\ [](mpc \in {"send", "batch"} => dpc = "run" /\ ~done)
    /\ [](mpc = "send" => <>(mpc = "select"))
    /\ [](mpc = "batch" => <>(mpc = "select"))

\* C20's case: the main goroutine is back at its select after the batch
\* command and both its members were taken by the dispatcher, and the two
\* members have not returned.
C20_Witness ==
    /\ mpc = "select"
    /\ Len(dispLog) = 3
    /\ dispLog[1].kind = "batch"
    /\ {dispLog[2], dispLog[3]} \subseteq running

\* The commands with identity id that a goroutine is running.
Running(id) == {c \in running : c.id = id}

\* C13: each command the dispatcher is handed is handed to it once and
\* invoked once, by a goroutine of its own; that goroutine offers the
\* command's result on msgs once, when the command has returned, and never
\* again.
C13_CmdInvokedAndOfferedOnce ==
    \A id \in 1..MaxCmds :
        /\ ghost.invoked[id] <= 1
        /\ ghost.invoked[id] =
              Cardinality({i \in 1..Len(dispLog) : dispLog[i].id = id})
        /\ ghost.offered[id] <= ghost.invoked[id]
        /\ Cardinality(Running(id)) = ghost.invoked[id] - ghost.offered[id]

\* C13's case: two commands run at the same time, each on its goroutine,
\* after a third one's result was offered, while the main loop and the
\* dispatcher are waiting.
C13_Witness ==
    /\ mpc = "select"
    /\ dpc = "run"
    /\ Cardinality(running) = 2
    /\ \E id \in 1..MaxCmds : ghost.offered[id] = 1

====
